---- MODULE Spec2Model ----
(***************************************************************************)
(* A model of the PNG chunk codec of pngme: ChunkType (chunk_type/mod.rs), *)
(* Chunk (chunk/mod.rs) and the Png container (png/mod.rs).                *)
(*                                                                         *)
(* Bytes are naturals in 0..255, byte buffers and strings are sequences of *)
(* bytes.  A u32 that carries a CRC is held as the pair <<high 16 bits,    *)
(* low 16 bits>>, the length field of a decoded chunk included: every      *)
(* buffer of the model is shorter than 65536 bytes, so a length whose high *)
(* half is not 0 exceeds what is left of any buffer.  A Result is a record *)
(* whose tag is "Ok", "Err" or "Panic": a Rust panic (a slice index or a   *)
(* split_at out of range) ends the call without any return value.          *)
(***************************************************************************)
EXTENDS Integers, Sequences, FiniteSets, TLC

VARIABLES
    png,      \* Png.chunks of the container under construction
    before,   \* Png.chunks as they were when the last container call began
    ret,      \* what the last container call returned
    value,    \* the byte buffer handed to Png::try_from / Chunk::try_from
    src,      \* where value came from: "none", "as_bytes" or "external"
    pc,       \* position of the running call
    index,    \* the read cursor of Png::try_from
    parsed,   \* the chunks of the local png of Png::try_from
    iters,    \* loop iterations Png::try_from has begun
    decode,   \* the last Chunk::try_from outcome
    result,   \* the outcome of Png::try_from / Chunk::try_from
    raw_in,   \* the array handed to ChunkType::try_from
    ct        \* the outcome of ChunkType::try_from and the later queries

vars == << png, before, ret, value, src, pc, index, parsed, iters, decode,
           result, raw_in, ct >>

(***************************************************************************)
(* Bounds of the model.                                                    *)
(***************************************************************************)
\* most chunks a container is built from
MaxChunks == 3
\* most chunk records an external input buffer is built from
MaxRecords == 2

(***************************************************************************)
(* Sample values.                                                          *)
(***************************************************************************)
IHDR == << 73, 72, 68, 82 >>
IEND == << 73, 69, 78, 68 >>
tEXt == << 116, 69, 88, 116 >>
\* four bytes that are not UTF-8
NotUtf8Type == << 255, 69, 78, 68 >>
\* the text "invalid", which Display writes for a type that is not UTF-8
InvalidText == << 105, 110, 118, 97, 108, 105, 100 >>
\* a well-formed type no sample chunk carries
zTXt == << 122, 84, 88, 116 >>

TypeSamples == { IHDR, IEND, tEXt }
DataSamples == { << >>, << 42 >> }
\* raw bytes for ChunkType::try_from: digit, upper, lower, continuation bytes,
\* 2-, 3- and 4-byte lead bytes, and a byte that never occurs in UTF-8
ByteSamples == { 49, 65, 97, 128, 159, 195, 226, 240, 255 }

(***************************************************************************)
(* chunk_type/mod.rs                                                       *)
(***************************************************************************)
IsCont(b) == b >= 128 /\ b <= 191

\* str::from_utf8 as ChunkType::try_from and Display call it: a scan of the
\* bytes from position i that accepts exactly the well-formed sequences
RECURSIVE Utf8From(_, _)
Utf8From(s, i) ==
    IF i > Len(s) THEN TRUE
    ELSE LET b == s[i]
             has(k) == i + k <= Len(s)
         IN  CASE b < 128 -> Utf8From(s, i + 1)
               [] b >= 194 /\ b <= 223 ->
                    has(1) /\ IsCont(s[i + 1]) /\ Utf8From(s, i + 2)
               [] b = 224 ->
                    has(2) /\ s[i + 1] >= 160 /\ s[i + 1] <= 191
                    /\ IsCont(s[i + 2]) /\ Utf8From(s, i + 3)
               [] (b >= 225 /\ b <= 236) \/ b = 238 \/ b = 239 ->
                    has(2) /\ IsCont(s[i + 1]) /\ IsCont(s[i + 2])
                    /\ Utf8From(s, i + 3)
               [] b = 237 ->
                    has(2) /\ s[i + 1] >= 128 /\ s[i + 1] <= 159
                    /\ IsCont(s[i + 2]) /\ Utf8From(s, i + 3)
               [] b = 240 ->
                    has(3) /\ s[i + 1] >= 144 /\ s[i + 1] <= 191
                    /\ IsCont(s[i + 2]) /\ IsCont(s[i + 3]) /\ Utf8From(s, i + 4)
               [] b >= 241 /\ b <= 243 ->
                    has(3) /\ IsCont(s[i + 1]) /\ IsCont(s[i + 2])
                    /\ IsCont(s[i + 3]) /\ Utf8From(s, i + 4)
               [] b = 244 ->
                    has(3) /\ s[i + 1] >= 128 /\ s[i + 1] <= 143
                    /\ IsCont(s[i + 2]) /\ IsCont(s[i + 3]) /\ Utf8From(s, i + 4)
               [] OTHER -> FALSE

FromUtf8Ok(s) == Utf8From(s, 1)

\* a plausible slip: the constructor stores any four bytes
ChunkTypeTryFromUnchecked(b) == [tag |-> "Ok", err |-> "", raw |-> b]

\* impl TryFrom<[u8; 4]> for ChunkType
ChunkTypeTryFrom(b) ==
    IF FromUtf8Ok(b)
    THEN [tag |-> "Ok", err |-> "", raw |-> b]
    ELSE [tag |-> "Err", err |-> "Utf8Error", raw |-> << >>]

\* ChunkType::bytes
Bytes(t) == t

IsAsciiLetter(b) == (b >= 97 /\ b <= 122) \/ (b >= 65 /\ b <= 90)

\* byte >> 5 & 1
Bit5(b) == (b \div 32) % 2

\* ChunkType::is_reserved_bit_valid
IsReservedBitValid(t) == Bit5(Bytes(t)[3]) = 0

\* ChunkType::is_valid
IsValid(t) ==
    (\A i \in 1..4 : IsAsciiLetter(Bytes(t)[i])) /\ IsReservedBitValid(t)

\* impl Display for ChunkType: the text format!("{}", chunk_type) builds
Display(t) == IF FromUtf8Ok(Bytes(t)) THEN Bytes(t) ELSE InvalidText

(***************************************************************************)
(* chunk/mod.rs                                                            *)
(***************************************************************************)
RECURSIVE Xor(_, _)
Xor(a, b) ==
    IF a = 0 THEN b
    ELSE IF b = 0 THEN a
    ELSE ((a + b) % 2) + 2 * Xor(a \div 2, b \div 2)

\* one bit of the reflected CRC-32 division; the polynomial 0xEDB88320 is
\* the pair <<0xEDB8, 0x8320>>
ShiftStep(c) ==
    LET sh == << c[1] \div 2, (c[2] \div 2) + (c[1] % 2) * 32768 >>
    IN  IF c[2] % 2 = 1
        THEN << Xor(sh[1], 60856), Xor(sh[2], 33568) >>
        ELSE sh

RECURSIVE ShiftSteps(_, _)
ShiftSteps(c, n) == IF n = 0 THEN c ELSE ShiftSteps(ShiftStep(c), n - 1)

\* the lookup table Crc::<u32>::new(&CRC_32_ISO_HDLC) builds
CrcTable == [i \in 0..255 |-> ShiftSteps(<< 0, i >>, 8)]

CrcUpdate(c, byte) ==
    LET e  == CrcTable[Xor(c[2] % 256, byte)]
        sh == << c[1] \div 256, (c[2] \div 256) + (c[1] % 256) * 256 >>
    IN  << Xor(sh[1], e[1]), Xor(sh[2], e[2]) >>

RECURSIVE CrcFold(_, _, _)
CrcFold(c, bytes, i) ==
    IF i > Len(bytes) THEN c
    ELSE CrcFold(CrcUpdate(c, bytes[i]), bytes, i + 1)

\* Crc::checksum: init 0xFFFFFFFF, reflected, final xor 0xFFFFFFFF
Checksum(bytes) ==
    LET c == CrcFold(<< 65535, 65535 >>, bytes, 1)
    IN  << 65535 - c[1], 65535 - c[2] >>

\* a plausible slip: to_le_bytes in place of to_be_bytes
LenToLeBytes(n) ==
    << n % 256, (n \div 256) % 256, (n \div 65536) % 256, (n \div 16777216) % 256 >>

\* u32::to_be_bytes of a length
LenToBeBytes(n) ==
    << (n \div 16777216) % 256, (n \div 65536) % 256, (n \div 256) % 256, n % 256 >>

\* u32::to_be_bytes of a CRC
CrcToBeBytes(c) == << c[1] \div 256, c[1] % 256, c[2] \div 256, c[2] % 256 >>

\* u32::from_be_bytes
FromBeBytes(b) == << b[1] * 256 + b[2], b[3] * 256 + b[4] >>

\* whether slice.split_at(mid) panics: mid > slice.len()
SplitAtPanics(slice, mid) == mid[1] > 0 \/ mid[2] > Len(slice)

\* Chunk::new (the crc field is the algorithm object, the same in every chunk)
NewChunk(t, d) == [chunk_type |-> t, data |-> d]

NoChunk == [chunk_type |-> << >>, data |-> << >>]

\* Chunk::length
Length(chunk) == Len(chunk.data)

\* Chunk::crc
ChunkCrc(chunk) == Checksum(Bytes(chunk.chunk_type) \o chunk.data)

\* Chunk::as_bytes
ChunkAsBytes(chunk) ==
    LenToBeBytes(Length(chunk)) \o Bytes(chunk.chunk_type) \o chunk.data
        \o CrcToBeBytes(ChunkCrc(chunk))

DecodeOk(chunk) == [tag |-> "Ok", err |-> "", chunk |-> chunk]
DecodeErr(e) == [tag |-> "Err", err |-> e, chunk |-> NoChunk]
DecodePanic == [tag |-> "Panic", err |-> "", chunk |-> NoChunk]
NoDecode == [tag |-> "None", err |-> "", chunk |-> NoChunk]

\* a plausible slip: the checksum field is read and never compared
ChunkTryFromNoCrcCheck(v) ==
    IF Len(v) < 8 THEN DecodePanic
    ELSE LET length == FromBeBytes(SubSeq(v, 1, 4))
             ty     == ChunkTypeTryFrom(SubSeq(v, 5, 8))
             rest   == SubSeq(v, 9, Len(v))
         IN  IF ty.tag = "Err" THEN DecodeErr(ty.err)
             ELSE IF SplitAtPanics(rest, length) THEN DecodePanic
             ELSE IF Len(rest) - length[2] < 4 THEN DecodePanic
             ELSE DecodeOk(NewChunk(ty.raw, SubSeq(rest, 1, length[2])))

\* impl TryFrom<&Vec<u8>> for Chunk
ChunkTryFrom(v) ==
    IF Len(v) < 8 THEN DecodePanic                      \* value.split_at(8)
    ELSE LET length == FromBeBytes(SubSeq(v, 1, 4))
             ty     == ChunkTypeTryFrom(SubSeq(v, 5, 8))
             rest   == SubSeq(v, 9, Len(v))
         IN  IF ty.tag = "Err" THEN DecodeErr(ty.err)   \* ChunkType::try_from(..)?
             ELSE IF SplitAtPanics(rest, length) THEN DecodePanic
             ELSE LET chunk == NewChunk(ty.raw, SubSeq(rest, 1, length[2]))
                      tail  == SubSeq(rest, length[2] + 1, Len(rest))
                  IN  IF Len(tail) < 4 THEN DecodePanic  \* rest[0..4]
                      ELSE IF FromBeBytes(SubSeq(tail, 1, 4)) # ChunkCrc(chunk)
                           THEN DecodeErr("CrcMismatch")
                           ELSE DecodeOk(chunk)

(***************************************************************************)
(* png/mod.rs                                                              *)
(***************************************************************************)
\* Png::STANDARD_HEADER
STANDARD_HEADER == << 137, 80, 78, 71, 13, 10, 26, 10 >>

\* Vec::remove(index): the later elements move down by one
RemoveAt(chunks, i) == SubSeq(chunks, 1, i - 1) \o SubSeq(chunks, i + 1, Len(chunks))

RECURSIVE PositionBack(_, _, _)
PositionBack(chunks, s, i) ==
    IF i = 0 THEN 0
    ELSE IF Display(chunks[i].chunk_type) = s THEN i
    ELSE PositionBack(chunks, s, i - 1)

\* a plausible slip: the search runs from the back (rposition)
PositionLast(chunks, s) == PositionBack(chunks, s, Len(chunks))

RECURSIVE PositionFrom(_, _, _)
PositionFrom(chunks, s, i) ==
    IF i > Len(chunks) THEN 0
    ELSE IF Display(chunks[i].chunk_type) = s THEN i
    ELSE PositionFrom(chunks, s, i + 1)

\* self.chunks.iter().position(|chunk| format!("{}", chunk.chunk_type()) ==
\* chunk_type), also the place where iter().find stops; 0 stands for None
Position(chunks, s) == PositionFrom(chunks, s, 1)

RECURSIVE AsBytesFold(_, _, _)
AsBytesFold(b, chunks, i) ==
    IF i > Len(chunks) THEN b
    ELSE AsBytesFold(b \o ChunkAsBytes(chunks[i]), chunks, i + 1)

\* Png::as_bytes
PngAsBytes(chunks) == AsBytesFold(STANDARD_HEADER, chunks, 1)

\* a plausible slip: the cursor skips the payload and not the 12 framing bytes
NextIndexNoFraming(i, chunk) == i + Length(chunk)

\* index += chunk.length() as usize + 12
NextIndex(i, chunk) == i + Length(chunk) + 12

NoRet == [op |-> "none", arg |-> << >>, tag |-> "None", chunk |-> NoChunk]
NoResult == [tag |-> "None", err |-> ""]
NoType == [tag |-> "None", err |-> "", raw |-> << >>, bytes |-> << >>,
           valid |-> FALSE]

\* the texts remove_chunk and chunk_by_type are asked for
TextSamples == TypeSamples \cup { zTXt, InvalidText }

\* Png::append_chunk, with the chunk built by Chunk::new from a type that
\* ChunkType::try_from returned
AppendChunk ==
    /\ pc = "idle"
    /\ Len(png) < MaxChunks
    /\ \E t \in TypeSamples \cup { NotUtf8Type }, d \in DataSamples :
          LET ty == ChunkTypeTryFrom(t)
          IN  /\ ty.tag = "Ok"
              /\ png' = Append(png, NewChunk(ty.raw, d))
    /\ before' = png
    /\ ret' = [op |-> "append_chunk", arg |-> << >>, tag |-> "Ok", chunk |-> NoChunk]
    /\ UNCHANGED << value, src, pc, index, parsed, iters, decode, result, raw_in, ct >>

\* Png::remove_chunk
RemoveChunk ==
    /\ pc = "idle"
    /\ \E s \in TextSamples :
          LET pos == Position(png, s)
          IN  IF pos # 0
              THEN /\ png' = RemoveAt(png, pos)
                   /\ ret' = [op |-> "remove_chunk", arg |-> s, tag |-> "Ok",
                              chunk |-> png[pos]]
              ELSE /\ png' = png
                   /\ ret' = [op |-> "remove_chunk", arg |-> s, tag |-> "Err",
                              chunk |-> NoChunk]
    /\ before' = png
    /\ UNCHANGED << value, src, pc, index, parsed, iters, decode, result, raw_in, ct >>

\* Png::chunk_by_type
ChunkByType ==
    /\ pc = "idle"
    /\ \E s \in TextSamples :
          LET pos == Position(png, s)
          IN  ret' = [op |-> "chunk_by_type", arg |-> s,
                      tag |-> IF pos # 0 THEN "Some" ELSE "None",
                      chunk |-> IF pos # 0 THEN png[pos] ELSE NoChunk]
    /\ before' = png
    /\ UNCHANGED << png, value, src, pc, index, parsed, iters, decode, result,
                    raw_in, ct >>

\* Png::as_bytes, whose bytes the caller then hands to Png::try_from
AsBytes ==
    /\ pc = "idle"
    /\ value' = PngAsBytes(png)
    /\ src' = "as_bytes"
    /\ pc' = "ready"
    /\ before' = png
    /\ ret' = [op |-> "as_bytes", arg |-> << >>, tag |-> "Ok", chunk |-> NoChunk]
    /\ UNCHANGED << png, index, parsed, iters, decode, result, raw_in, ct >>

\* Png::try_from up to the loop: the signature slice and its comparison
TryFromBegin ==
    /\ pc = "ready"
    /\ IF Len(value) < 8
       THEN /\ result' = [tag |-> "Panic", err |-> ""]         \* value[0..8]
            /\ pc' = "done"
            /\ UNCHANGED << index, parsed >>
       ELSE IF SubSeq(value, 1, 8) # STANDARD_HEADER
       THEN /\ result' = [tag |-> "Err", err |-> "SignatureMismatch"]
            /\ pc' = "done"
            /\ UNCHANGED << index, parsed >>
       ELSE /\ index' = 8
            /\ parsed' = << >>
            /\ pc' = "loop"
            /\ UNCHANGED result
    /\ UNCHANGED << png, before, ret, value, src, iters, decode, raw_in, ct >>

\* one iteration of the loop of Png::try_from
TryFromLoop ==
    /\ pc = "loop"
    /\ iters' = iters + 1
    /\ IF index > Len(value)
       THEN /\ result' = [tag |-> "Panic", err |-> ""]         \* value[index..]
            /\ pc' = "done"
            /\ UNCHANGED << index, parsed, decode >>
       ELSE LET d == ChunkTryFrom(SubSeq(value, index + 1, Len(value)))
            IN  /\ decode' = d
                /\ CASE d.tag = "Ok" ->
                          /\ index' = NextIndex(index, d.chunk)
                          /\ parsed' = Append(parsed, d.chunk)
                          /\ IF Display(d.chunk.chunk_type) = IEND
                             THEN pc' = "done" /\ result' = [tag |-> "Ok", err |-> ""]
                             ELSE pc' = "loop" /\ UNCHANGED result
                     [] d.tag = "Err" ->
                          \* println!("Oops {}", err); break; then Ok(png)
                          /\ pc' = "done"
                          /\ result' = [tag |-> "Ok", err |-> ""]
                          /\ UNCHANGED << index, parsed >>
                     [] OTHER ->
                          /\ pc' = "done"
                          /\ result' = [tag |-> "Panic", err |-> ""]
                          /\ UNCHANGED << index, parsed >>
    /\ UNCHANGED << png, before, ret, value, src, raw_in, ct >>

\* Chunk::try_from called on the buffer itself
DecodeChunk ==
    /\ pc = "ready"
    /\ LET d == ChunkTryFrom(value)
       IN  /\ decode' = d
           /\ result' = [tag |-> d.tag, err |-> d.err]
    /\ pc' = "chunk_done"
    /\ UNCHANGED << png, before, ret, value, src, index, parsed, iters, raw_in, ct >>

\* ChunkType::try_from on a raw array
TypeTryFrom ==
    /\ pc = "type_ready"
    /\ LET ty == ChunkTypeTryFrom(raw_in)
       IN  ct' = [tag |-> ty.tag, err |-> ty.err, raw |-> ty.raw,
                  bytes |-> << >>, valid |-> FALSE]
    /\ pc' = "type_made"
    /\ UNCHANGED << png, before, ret, value, src, index, parsed, iters, decode,
                    result, raw_in >>

\* ChunkType::bytes and ChunkType::is_valid on the constructed value
TypeQuery ==
    /\ pc = "type_made"
    /\ ct.tag = "Ok"
    /\ ct' = [ct EXCEPT !.bytes = Bytes(ct.raw), !.valid = IsValid(ct.raw)]
    /\ pc' = "type_done"
    /\ UNCHANGED << png, before, ret, value, src, index, parsed, iters, decode,
                    result, raw_in >>

(***************************************************************************)
(* Specifications.                                                         *)
(***************************************************************************)
SeqsUpTo(S, n) == UNION { [1..k -> S] : k \in 0..n }

\* a buffer cut short at every length, and with each single byte changed
Variants(b) ==
    { b } \cup { SubSeq(b, 1, k) : k \in 0..(Len(b) - 1) }
        \cup { [b EXCEPT ![i] = (b[i] + 1) % 256] : i \in 1..Len(b) }

RecordChunks ==
    { NewChunk(t, d) : t \in TypeSamples \cup { NotUtf8Type }, d \in DataSamples }

\* the external buffers: every serialized record sequence and every encoded
\* chunk, each with its variants
Inputs ==
    UNION ({ Variants(PngAsBytes(cs)) : cs \in SeqsUpTo(RecordChunks, MaxRecords) }
            \cup { Variants(ChunkAsBytes(c)) : c \in RecordChunks })

RawSamples ==
    { << a, b, c, d >> : a \in ByteSamples, b \in ByteSamples,
                         c \in ByteSamples, d \in ByteSamples }

Quiet ==
    /\ png = << >> /\ before = << >> /\ ret = NoRet
    /\ index = 0 /\ parsed = << >> /\ iters = 0
    /\ decode = NoDecode /\ result = NoResult /\ ct = NoType

\* a container is built and changed, then serialized and parsed back
Init == Quiet /\ value = << >> /\ src = "none" /\ pc = "idle" /\ raw_in = << >>

Next == AppendChunk \/ RemoveChunk \/ ChunkByType \/ AsBytes \/ TryFromBegin
            \/ TryFromLoop

Spec == Init /\ [][Next]_vars

\* an external buffer is parsed as a container, or decoded as one chunk
InitParse ==
    Quiet /\ value \in Inputs /\ src = "external" /\ pc = "ready" /\ raw_in = << >>

NextParse == TryFromBegin \/ TryFromLoop \/ DecodeChunk

SpecParse == InitParse /\ [][NextParse]_vars

\* a chunk type is constructed from a raw array and queried
InitType ==
    Quiet /\ value = << >> /\ src = "none" /\ pc = "type_ready"
        /\ raw_in \in RawSamples

NextType == TypeTryFrom \/ TypeQuery

SpecType == InitType /\ [][NextType]_vars

(***************************************************************************)
(* Properties.                                                             *)
(***************************************************************************)
Magic == << 137, 80, 78, 71, 13, 10, 26, 10 >>
StartsWithMagic(v) == Len(v) >= 8 /\ SubSeq(v, 1, 8) = Magic

Types(cs) == [i \in 1..Len(cs) |-> cs[i].chunk_type]

\* the well-formed UTF-8 encodings of one scalar value, by length
Enc1(a) == a <= 127
Enc2(a, b) == a >= 194 /\ a <= 223 /\ IsCont(b)
Enc3(a, b, c) ==
    /\ a >= 224 /\ a <= 239 /\ IsCont(b) /\ IsCont(c)
    /\ (a = 224 => b >= 160)
    /\ (a = 237 => b <= 159)
Enc4(a, b, c, d) ==
    /\ a >= 240 /\ a <= 244 /\ IsCont(b) /\ IsCont(c) /\ IsCont(d)
    /\ (a = 240 => b >= 144)
    /\ (a = 244 => b <= 143)

\* four bytes that split into well-formed encodings
WellFormed4(r) ==
    \/ Enc1(r[1]) /\ Enc1(r[2]) /\ Enc1(r[3]) /\ Enc1(r[4])
    \/ Enc2(r[1], r[2]) /\ Enc1(r[3]) /\ Enc1(r[4])
    \/ Enc1(r[1]) /\ Enc2(r[2], r[3]) /\ Enc1(r[4])
    \/ Enc1(r[1]) /\ Enc1(r[2]) /\ Enc2(r[3], r[4])
    \/ Enc2(r[1], r[2]) /\ Enc2(r[3], r[4])
    \/ Enc3(r[1], r[2], r[3]) /\ Enc1(r[4])
    \/ Enc1(r[1]) /\ Enc3(r[2], r[3], r[4])
    \/ Enc4(r[1], r[2], r[3], r[4])

Terminated(cs) == Len(cs) > 0 /\ cs[Len(cs)].chunk_type = IEND
OnlyLastTerminator(cs) ==
    Terminated(cs) /\ \A i \in 1..(Len(cs) - 1) : cs[i].chunk_type # IEND
RoundTripDone == pc = "done" /\ src = "as_bytes"

\* C1 as stated: for every container whose chunk sequence ends in an IEND
\* chunk, Png::try_from of Png::as_bytes succeeds and yields the same ordered
\* chunk sequence (same count, same type and payload bytes at each position).
C1_RoundTripAnyTerminated ==
    (RoundTripDone /\ Terminated(png)) => (result.tag = "Ok" /\ parsed = png)

\* C1 as amended: for every container whose only IEND chunk is its last
\* chunk, Png::try_from of Png::as_bytes succeeds and yields the same ordered
\* chunk sequence (same count, same type and payload bytes at each position).
C1_RoundTrip ==
    (RoundTripDone /\ OnlyLastTerminator(png)) =>
        (result.tag = "Ok" /\ parsed = png)

C1_Witness ==
    /\ RoundTripDone /\ OnlyLastTerminator(png)
    /\ Len(png) = 3 /\ png[2].data # << >>
    /\ result.tag = "Ok" /\ parsed = png

\* a record at (0-based) offset i of v that decodes: twelve framing bytes, a
\* declared length that fits, a UTF-8 type and a matching checksum
RecordLen(v, i) == FromBeBytes(SubSeq(v, i + 1, i + 4))
RecordFits(v, i) ==
    /\ Len(v) - i >= 12
    /\ RecordLen(v, i)[1] = 0
    /\ RecordLen(v, i)[2] <= Len(v) - i - 12
RecordOk(v, i) ==
    /\ RecordFits(v, i)
    /\ WellFormed4(SubSeq(v, i + 5, i + 8))
    /\ LET n == RecordLen(v, i)[2]
       IN  FromBeBytes(SubSeq(v, i + 9 + n, i + 12 + n))
               = Checksum(SubSeq(v, i + 5, i + 8 + n))

RECURSIVE NonTerminatorsFrom(_, _)
NonTerminatorsFrom(v, i) ==
    IF i >= Len(v) THEN i = Len(v)
    ELSE /\ RecordOk(v, i)
         /\ SubSeq(v, i + 5, i + 8) # IEND
         /\ NonTerminatorsFrom(v, i + 12 + RecordLen(v, i)[2])

\* C2: Png::try_from of the signature followed by zero or more well-formed
\* non-IEND chunks and then the end of the buffer returns an error, never a
\* container.
C2_MissingTerminator ==
    (pc = "done" /\ StartsWithMagic(value) /\ NonTerminatorsFrom(value, 8))
        => result.tag = "Err"

\* the chunk at the cursor has a checksum mismatch, or declares more payload
\* than the buffer holds
UndecodableAtCursor ==
    /\ Len(value) - index >= 8
    /\ \/ decode = DecodeErr("CrcMismatch")
       \/ SplitAtPanics(SubSeq(value, index + 9, Len(value)), RecordLen(value, index))

\* C3: when a chunk before the terminator cannot be decoded (checksum
\* mismatch, or declared length beyond the remaining bytes), Png::try_from
\* returns an error and not a container of the chunks decoded so far.
C3_SurfacesDecodeFailure ==
    (pc = "done" /\ iters > 0 /\ decode.tag # "Ok" /\ UndecodableAtCursor)
        => result.tag = "Err"

\* C4: for every buffer, of any length, that does not start with the 8
\* signature bytes, Png::try_from returns the signature error, and no chunk
\* decode is attempted.
C4_BadSignature ==
    (pc = "done" /\ ~StartsWithMagic(value)) =>
        /\ result = [tag |-> "Err", err |-> "SignatureMismatch"]
        /\ iters = 0 /\ decode = NoDecode /\ parsed = << >>

\* the buffer is shorter than its fields demand
TooShort(v) ==
    \/ Len(v) < 8
    \/ SplitAtPanics(SubSeq(v, 9, Len(v)), RecordLen(v, 0))
    \/ Len(v) - 8 - RecordLen(v, 0)[2] < 4

\* C5: Chunk::try_from of a buffer shorter than its fields demand returns an
\* error value and makes no slice or split past the end of the buffer.
C5_TruncatedInput ==
    (pc = "chunk_done" /\ TooShort(value)) => result.tag = "Err"

\* C6: Chunk::try_from returns a chunk only when the big-endian checksum field
\* equals the CRC-32 of the 4 type bytes followed by the payload (the length
\* field left out); an otherwise valid encoded chunk whose checksum field
\* differs fails with the checksum error and no chunk is returned.
C6_ChecksumGate ==
    pc = "chunk_done" =>
        /\ result.tag = "Ok" =>
              LET n == Len(decode.chunk.data)
              IN  /\ RecordFits(value, 0) /\ RecordLen(value, 0)[2] = n
                  /\ decode.chunk.chunk_type = SubSeq(value, 5, 8)
                  /\ decode.chunk.data = SubSeq(value, 9, 8 + n)
                  /\ FromBeBytes(SubSeq(value, 9 + n, 12 + n))
                         = Checksum(SubSeq(value, 5, 8 + n))
        /\ (/\ RecordFits(value, 0)
            /\ WellFormed4(SubSeq(value, 5, 8))
            /\ ~RecordOk(value, 0))
              => (result = [tag |-> "Err", err |-> "CrcMismatch"]
                    /\ decode.chunk = NoChunk)

C6_Witness ==
    /\ pc = "chunk_done"
    /\ result = [tag |-> "Err", err |-> "CrcMismatch"]
    /\ \E c \in RecordChunks :
          LET b == ChunkAsBytes(c)
          IN  /\ Len(value) = Len(b)
              /\ \E i \in (Len(b) - 3)..Len(b) :
                    /\ value[i] # b[i]
                    /\ \A j \in 1..Len(b) : j # i => value[j] = b[j]

FirstMatch(cs, s) ==
    IF \E i \in 1..Len(cs) : cs[i].chunk_type = s
    THEN CHOOSE i \in 1..Len(cs) :
            /\ cs[i].chunk_type = s
            /\ \A j \in 1..(i - 1) : cs[j].chunk_type # s
    ELSE 0

\* C7: remove_chunk(code) removes and returns exactly the first chunk whose
\* type equals code and leaves every other chunk in its relative order; with
\* no such chunk it fails and the sequence is unchanged.  chunk_by_type(code)
\* returns that same first match, or none, and never changes the sequence.
C7_RemoveFind ==
    LET i == FirstMatch(before, ret.arg)
    IN  /\ ret.op = "remove_chunk" =>
              IF i # 0
              THEN /\ ret.tag = "Ok" /\ ret.chunk = before[i]
                   /\ Len(png) = Len(before) - 1
                   /\ \A j \in 1..Len(png) :
                         png[j] = IF j < i THEN before[j] ELSE before[j + 1]
              ELSE ret.tag = "Err" /\ png = before
        /\ ret.op = "chunk_by_type" =>
              /\ png = before
              /\ IF i # 0
                 THEN ret.tag = "Some" /\ ret.chunk = before[i]
                 ELSE ret.tag = "None" /\ ret.chunk = NoChunk

C7_Witness ==
    /\ ret.op = "remove_chunk" /\ ret.arg = IHDR /\ ret.tag = "Ok"
    /\ Types(before) = << IHDR, tEXt, IHDR >>
    /\ Types(png) = << tEXt, IHDR >>

\* C8: every container Png::try_from returns has a first chunk of type IHDR.
C8_HeaderFirst ==
    (pc = "done" /\ result.tag = "Ok") =>
        (Len(parsed) >= 1 /\ parsed[1].chunk_type = IHDR)

TypeMade == pc \in { "type_made", "type_done" }

LoopBounded ==
    pc \in { "loop", "done" } /\ StartsWithMagic(value) =>
        /\ index <= Len(value)
        /\ iters <= ((Len(value) - 8) \div 12) + 1

\* every iteration is counted, and one that stays in the loop has decoded a
\* chunk and moved the cursor by its length + 12
LoopAdvances ==
    pc = "loop" =>
        /\ iters' = iters + 1
        /\ pc' \in { "loop", "done" }
        /\ pc' = "loop" =>
              /\ decode'.tag = "Ok"
              /\ index' = index + Len(decode'.chunk.data) + 12
              /\ index' >= index + 12

\* C10: on every buffer with a valid signature the loop of Png::try_from
\* ends: each iteration leaves the loop or moves the cursor by the decoded
\* length + 12, the cursor never passes the end of the buffer, and there are
\* at most (buffer length - 8) / 12 + 1 iterations.
C10_LoopTerminates == []LoopBounded /\ [][LoopAdvances]_vars

C10_Witness ==
    /\ pc = "done" /\ StartsWithMagic(value)
    /\ iters = 3 /\ iters = ((Len(value) - 8) \div 12) + 1
    /\ Len(parsed) = 2

====
